---- MODULE Spec2Model ----
(***************************************************************************)
(* wiki2anki: the word-selection-and-definition pipeline of src/page.py.   *)
(*                                                                         *)
(* Strings are sequences of one-character strings, so that cleaning,       *)
(* lowercasing and flashcard formatting are computed character by          *)
(* character.  An optional value (Python's None or a value) is a sequence  *)
(* of length 0 or 1.                                                       *)
(***************************************************************************)
EXTENDS Integers, Sequences, FiniteSets, TLC

VARIABLES
    text,        \* Page.get_text(): the body text of the page
    table,       \* the rows (word column) of ../data/english_10000.csv
    top,         \* Wiki2Anki.top
    common,      \* Wiki2Anki.common: the first `top` rows of the table
    max_words,   \* the n of df.head(n) in Wiki2Anki.get_words
    source,      \* how the definition source answers: "dict" or "any"
    defined,     \* the words the "dict" source has an entry for
    file,        \* the deck file at the target location
    file_before, \* that file before the run started
    caller,      \* the entry point of the run: "write", "get_deck", ...
    pc,          \* "ready", "resolving", "done", "failed"
    words,       \* the Word objects of get_words, in order
    i,           \* index of the Word the for loop of get_words is at
    attempt,     \* the get_definition call of define the loop is at (1, 2)
    entry,       \* WiktionaryDefiner.entry
    queries,     \* every parser.fetch call, in order: for which Word, the word
                 \* looked up, and how the get_definition call ended
    error,       \* the exception that ended the run, or "none"
    out,         \* the string get_deck returned (an optional)
    deck,        \* a Deck: a list of Flashcards
    wpc,         \* per worker: "lookup", "read", "done"
    wattempt     \* per worker: the get_definition call of define it is at

vars == <<text, table, top, common, max_words, source, defined, file,
          file_before, caller, pc, words, i, attempt, entry, queries,
          error, out, deck, wpc, wattempt>>

(***************************************************************************)
(* Bounds of the model.                                                    *)
(***************************************************************************)
MaxTokens == 4
MaxWords == 2
MaxCards == 2

\* The literal of df.head(100) in get_words.  The scenario run uses it; the
\* bounded runs draw max_words from 1..MaxWords, so that the truncation
\* happens on pages of at most MaxTokens pieces.
MAX_WORDS == 100

None == <<>>
Some(v) == <<v>>

(***************************************************************************)
(* Characters and strings.                                                 *)
(***************************************************************************)
\* str.lower() on one character.
lower_char(c) ==
    CASE c = "T" -> "t"
      [] c = "F" -> "f"
      [] c = "L" -> "l"
      [] OTHER -> c

\* str.lower()
lower(s) == [k \in 1..Len(s) |-> lower_char(s[k])]

\* \s of the regular expressions
is_space(c) == c \in {" ", "\n", "\t"}

\* [^\w\s] of NON_ALNUM: a character that is neither a word character nor
\* whitespace.
is_punctuation(c) == c \in {".", ",", ";", ":", "\"", "'", "!", "?", "(", ")"}

\* Cleaner.remove_punctuation: NON_ALNUM.sub("", string)
remove_punctuation(string) == SelectSeq(string, LAMBDA c : ~is_punctuation(c))

\* WHITESPACE.split(string): the pieces between the maximal runs of
\* whitespace; a leading or trailing run leaves an empty piece.
RECURSIVE split_from(_, _, _)
split_from(string, k, piece) ==
    IF k > Len(string) THEN <<piece>>
    ELSE IF is_space(string[k])
         THEN IF k > 1 /\ is_space(string[k - 1])
              THEN split_from(string, k + 1, piece)
              ELSE <<piece>> \o split_from(string, k + 1, <<>>)
         ELSE split_from(string, k + 1, Append(piece, string[k]))

split_by_whitespace(string) == split_from(string, 1, <<>>)

\* BasicEnglishCleaner.clean
clean(string) == split_by_whitespace(remove_punctuation(string))

(***************************************************************************)
(* The selection of get_words: drop_duplicates, head, the common mask.     *)
(***************************************************************************)
\* drop_duplicates with keep="last": a row stays when no later row holds the
\* same word.
drop_duplicates_keep_last(ws) ==
    LET rows == SelectSeq([k \in 1..Len(ws) |-> [at |-> k, word |-> ws[k]]],
                          LAMBDA r : \A j \in (r.at + 1)..Len(ws) : ws[j] /= r.word)
    IN [k \in 1..Len(rows) |-> rows[k].word]

\* df.drop_duplicates("word"): a row stays when no earlier row holds the same
\* word.
drop_duplicates(ws) ==
    LET keep(k) == \A j \in 1..(k - 1) : ws[j] /= ws[k]
        RECURSIVE from(_)
        from(k) == IF k > Len(ws) THEN <<>>
                   ELSE IF keep(k) THEN <<ws[k]>> \o from(k + 1)
                        ELSE from(k + 1)
    IN from(1)

\* df.head(n): the first n rows, all of them when there are fewer.
head(ws, n) == SubSeq(ws, 1, IF Len(ws) < n THEN Len(ws) ELSE n)

\* Series.isin(values)
isin(w, values) == \E k \in 1..Len(values) : values[k] = w

\* The mask with the rows lowercased too: a case-insensitive test.
mask_case_insensitive(w, commonRows) ==
    \E k \in 1..Len(commonRows) : lower(commonRows[k]) = lower(w)

\* mask = df["word"].isin(common["word"]) | df["word"].str.lower().isin(...)
mask(w, commonRows) == isin(w, commonRows) \/ isin(lower(w), commonRows)

\* df[~mask]["word"]
not_common(ws, commonRows) == SelectSeq(ws, LAMBDA w : ~mask(w, commonRows))

\* Page.get_words(cleaner)
page_get_words(t) == clean(t)

\* The selection with the common words removed before the truncation.
selected_filter_first(t, commonRows, n) ==
    head(not_common(drop_duplicates(clean(t)), commonRows), n)

\* The selection without df.head: every deduplicated row is looked at.
selected_untruncated(t, commonRows, n) ==
    not_common(drop_duplicates(clean(t)), commonRows)

\* The rows get_words makes Word objects of.
selected(t, commonRows, n) ==
    not_common(head(drop_duplicates(page_get_words(t)), n), commonRows)

\* Word(word): the definition starts as None.
Word(w) == [word |-> w, definition |-> None]

(***************************************************************************)
(* The definition source: what WiktionaryParser.fetch may return.  An      *)
(* entry list is a sequence of entries, an entry has a list of             *)
(* definitions, a definition a list of text elements.                      *)
(***************************************************************************)
fox == <<"f", "o", "x">>
a_wild_canine == <<"a", " ", "w", "i", "l", "d", " ", "c", "a", "n", "i", "n", "e">>
part_of_speech == <<"n", "o", "u", "n">>

\* The definition the "dict" source lists for a word.
dict_definition(w) == IF w = fox THEN a_wild_canine ELSE <<"d", "e", "f", ":">> \o w

no_entry == <<>>
entry_without_definitions == <<[definitions |-> <<>>]>>
entry_short_text == <<[definitions |-> <<[text |-> <<part_of_speech>>]>>]>>
entry_of(w) == <<[definitions |-> <<[text |-> <<part_of_speech, dict_definition(w)>>]>>]>>

\* The entry lists parser.fetch(word, language) may return.
fetch(w) ==
    IF source = "dict"
    THEN {IF w \in defined THEN entry_of(w) ELSE no_entry}
    ELSE {no_entry, entry_without_definitions, entry_short_text, entry_of(w)}

(***************************************************************************)
(* WiktionaryDefiner                                                       *)
(***************************************************************************)
returns(v) == [raised |-> FALSE, value |-> v]
raises == [raised |-> TRUE, value |-> None]

\* WiktionaryDefiner.get_definition after lookup_word, on self.entry = e,
\* with entry_n = 0 and definition_n = 0.
get_definition(e) ==
    IF e = <<>> THEN returns(None)
    ELSE LET definitions == e[1].definitions
         IN IF Len(definitions) < 1 THEN returns(None)   \* except IndexError
            ELSE LET txt == definitions[1].text
                 IN IF Len(txt) < 2 THEN raises          \* text[1]: IndexError
                    ELSE returns(Some(txt[2]))

\* WiktionaryDefiner.define: whether, after get_definition call number
\* `n` returned `result`, the lowercased word is looked up.
define_retries(word, result, n) ==
    n = 1 /\ result = None /\ lower(word) /= word

\* The word get_definition call number n of define(word) looks up.
define_lookup(word, n) == IF n = 1 THEN word ELSE lower(word)

(***************************************************************************)
(* Flashcard and Deck                                                      *)
(***************************************************************************)
\* Flashcard.from_word
from_word(w) == [word |-> w.word, definition |-> w.definition]

\* An f-string's rendering of an optional string.
format_value(d) == IF d = None THEN <<"N", "o", "n", "e">> ELSE d[1]

\* Flashcard.get_flashcard
get_flashcard(card) ==
    card.word \o <<";", " ", "\"">> \o format_value(card.definition) \o <<"\"">>

\* "\n".join(lines)
RECURSIVE join(_)
join(lines) ==
    IF lines = <<>> THEN <<>>
    ELSE IF Len(lines) = 1 THEN lines[1]
         ELSE lines[1] \o <<"\n">> \o join(Tail(lines))

\* as_string without its second filter: cards with an empty word stay.
as_string_keeps_empty_words(d) ==
    LET cards1 == SelectSeq(d, LAMBDA card : card.definition /= None)
    IN join([k \in 1..Len(cards1) |-> get_flashcard(cards1[k])])

\* Deck.as_string
as_string(d) ==
    LET cards1 == SelectSeq(d, LAMBDA card : card.definition /= None)
        cards2 == SelectSeq(cards1, LAMBDA card : card.word /= <<>>)
    IN join([k \in 1..Len(cards2) |-> get_flashcard(cards2[k])])

(***************************************************************************)
(* Wiki2Anki                                                               *)
(***************************************************************************)
\* What get_words returns: it ends without a return statement.
get_words_return(ws) == [is_none |-> TRUE, value |-> <<>>]

\* open(location, "w"): the file exists and is empty.
open_w == Some(<<>>)

\* Wiki2Anki.__attrs_post_init__: pd.read_csv(...).head(n=self.top)
read_common(rows, n) == head(rows, n)

\* get_words up to its for loop.
EnterGetWords ==
    /\ words' = [k \in 1..Len(selected(text, common, max_words)) |->
                    Word(selected(text, common, max_words)[k])]
    /\ i' = 1
    /\ attempt' = 1
    /\ pc' = "resolving"

\* Wiki2Anki.write(location), up to the for loop of get_words.
Wiki2Anki_write ==
    /\ pc = "ready"
    /\ caller = "none"
    /\ caller' = "write"
    /\ file' = open_w
    /\ EnterGetWords
    /\ UNCHANGED <<text, table, top, common, max_words, source, defined,
                   file_before, entry, queries, error, out, deck,
                   wpc, wattempt>>

\* Wiki2Anki.get_deck(), up to the for loop of get_words.
Wiki2Anki_get_deck ==
    /\ pc = "ready"
    /\ caller = "none"
    /\ caller' = "get_deck"
    /\ EnterGetWords
    /\ UNCHANGED <<text, table, top, common, max_words, source, defined, file,
                   file_before, entry, queries, error, out, deck,
                   wpc, wattempt>>

Query(k, w, outcome) == [index |-> k, word |-> w, outcome |-> outcome]

\* One get_definition call of word.get_definition(definer) -> define.
Word_get_definition ==
    /\ pc = "resolving"
    /\ i <= Len(words)
    /\ LET word == words[i].word
           w == define_lookup(word, attempt)
       IN \E e \in fetch(w) :
            LET r == get_definition(e)
            IN /\ entry' = Some(e)
               /\ IF r.raised
                  THEN /\ queries' = Append(queries, Query(i, w, "raised"))
                       /\ pc' = "failed"
                       /\ error' = "IndexError"
                       /\ UNCHANGED <<words, i, attempt>>
                  ELSE /\ queries' = Append(queries,
                              Query(i, w, IF r.value = None THEN "none" ELSE "found"))
                       /\ UNCHANGED <<pc, error>>
                       /\ IF define_retries(word, r.value, attempt)
                          THEN /\ attempt' = attempt + 1
                               /\ UNCHANGED <<words, i>>
                          ELSE /\ words' = [words EXCEPT ![i].definition = r.value]
                               /\ i' = i + 1
                               /\ attempt' = 1
    /\ UNCHANGED <<text, table, top, common, max_words, source, defined, file,
                   file_before, caller, out, deck, wpc, wattempt>>

\* parser.fetch raises (the source cannot be reached): nothing catches it.
parser_fetch_raises ==
    /\ pc = "resolving"
    /\ i <= Len(words)
    /\ source = "any"
    /\ queries' = Append(queries,
                         Query(i, define_lookup(words[i].word, attempt), "raised"))
    /\ pc' = "failed"
    /\ error' = "FetchError"
    /\ UNCHANGED <<text, table, top, common, max_words, source, defined, file,
                   file_before, caller, words, i, attempt, entry, out,
                   deck, wpc, wattempt>>

\* get_words returns; get_cards iterates over what it returned; get_deck
\* formats the Deck; write writes the string to the open file.
Wiki2Anki_get_cards ==
    /\ pc = "resolving"
    /\ i > Len(words)
    /\ LET r == get_words_return(words)
       IN IF r.is_none
          THEN /\ pc' = "failed"
               /\ error' = "TypeError"
               /\ UNCHANGED <<out, deck, file>>
          ELSE /\ deck' = [k \in 1..Len(r.value) |-> from_word(r.value[k])]
               /\ out' = Some(as_string(deck'))
               /\ file' = IF caller = "write" THEN out' ELSE file
               /\ pc' = "done"
               /\ UNCHANGED error
    /\ UNCHANGED <<text, table, top, common, max_words, source, defined,
                   file_before, caller, words, i, attempt, entry, queries,
                   wpc, wattempt>>

(***************************************************************************)
(* The inputs of a run.                                                    *)
(***************************************************************************)
the == <<"t", "h", "e">>
The == <<"T", "h", "e">>
light == <<"l", "i", "g", "h", "t">>
Light == <<"L", "i", "g", "h", "t">>
Fox == <<"F", "o", "x">>
quick == <<"q", "u", "i", "c", "k">>
over == <<"o", "v", "e", "r">>
lazy == <<"l", "a", "z", "y">>
dog == <<"d", "o", "g">>
runs == <<"r", "u", "n", "s">>
jumps == <<"j", "u", "m", "p", "s">>

\* The pieces the bounded page texts are made of.
Pieces == {The, the, <<"l", "i", "g", "h", "t", ".">>}

RECURSIVE SeqsUpTo(_, _)
SeqsUpTo(S, n) ==
    IF n = 0 THEN {<<>>}
    ELSE LET shorter == SeqsUpTo(S, n - 1)
         IN shorter \cup {Append(s, x) : s \in {t \in shorter : Len(t) = n - 1}, x \in S}

RECURSIVE join_spaces(_)
join_spaces(ps) ==
    IF ps = <<>> THEN <<>>
    ELSE IF Len(ps) = 1 THEN ps[1]
         ELSE ps[1] \o <<" ">> \o join_spaces(Tail(ps))

Texts == {join_spaces(ps) : ps \in SeqsUpTo(Pieces, MaxTokens)}

Tables == {<<the, Light>>, <<Light, the>>, <<light, the>>}

old_deck == <<"o", "l", "d">>

ScenarioText ==
    <<"T", "h", "e", " ", "q", "u", "i", "c", "k", " ", "F", "o", "x", " ",
      "j", "u", "m", "p", "s", " ", "o", "v", "e", "r", " ", "t", "h", "e", " ",
      "l", "a", "z", "y", " ", "d", "o", "g", ".", " ", "T", "h", "e", " ",
      "F", "o", "x", " ", "r", "u", "n", "s", ".">>
ScenarioTable == <<the, quick, over, lazy, dog, runs>>

\* No run has started.
Idle ==
    /\ caller = "none"
    /\ pc = "ready"
    /\ words = <<>>
    /\ i = 1
    /\ attempt = 1
    /\ entry = None
    /\ queries = <<>>
    /\ error = "none"
    /\ out = None
    /\ deck = <<>>
    /\ wpc = <<>>
    /\ wattempt = <<>>

\* Wiki2Anki(url, top) on a bounded page, table and definition source.
InitBounded ==
    /\ text \in Texts
    /\ table \in Tables
    /\ top \in 1..2
    /\ max_words \in 1..MaxWords
    /\ source = "any"
    /\ defined = {}

\* The end-to-end scenario.
InitScenario ==
    /\ text = ScenarioText
    /\ table = ScenarioTable
    /\ top = Len(ScenarioTable)
    /\ max_words = MAX_WORDS
    /\ source = "dict"
    /\ defined = {fox}

Init ==
    /\ InitBounded \/ InitScenario
    /\ common = read_common(table, top)
    /\ file_before \in {None, Some(old_deck)}
    /\ file = file_before
    /\ Idle

Next ==
    \/ Wiki2Anki_write
    \/ Wiki2Anki_get_deck
    \/ Word_get_definition
    \/ parser_fetch_raises
    \/ Wiki2Anki_get_cards

Spec == Init /\ [][Next]_vars

(***************************************************************************)
(* Deck.as_string on its own: a Deck of bounded Flashcards is formatted.   *)
(***************************************************************************)
CardWords == {<<>>, Fox, the}
CardDefinitions == {None, Some(<<>>), Some(a_wild_canine)}
Cards == {[word |-> w, definition |-> d] : w \in CardWords, d \in CardDefinitions}

\* No page, table or definition source takes part.
NoPipeline ==
    /\ text = <<>>
    /\ table = <<>>
    /\ top = 0
    /\ common = <<>>
    /\ max_words = MAX_WORDS
    /\ file_before = None
    /\ file = None

DeckInit ==
    /\ NoPipeline
    /\ source = "dict"
    /\ defined = {}
    /\ caller = "none"
    /\ pc = "ready"
    /\ words = <<>>
    /\ i = 1
    /\ attempt = 1
    /\ entry = None
    /\ queries = <<>>
    /\ error = "none"
    /\ out = None
    /\ deck \in SeqsUpTo(Cards, MaxCards)
    /\ wpc = <<>>
    /\ wattempt = <<>>

\* deck.as_string()
Deck_as_string ==
    /\ pc \in {"ready", "done"}
    /\ caller' = "as_string"
    /\ out' = Some(as_string(deck))
    /\ pc' = "done"
    /\ UNCHANGED <<text, table, top, common, max_words, source, defined, file,
                   file_before, words, i, attempt, entry, queries, error, deck,
                   wpc, wattempt>>

DeckNext == Deck_as_string

DeckSpec == DeckInit /\ [][DeckNext]_vars

(***************************************************************************)
(* The Words of get_words resolved by a pool of workers, one Word each,    *)
(* through the one WiktionaryDefiner of the pipeline (self.definer).  A    *)
(* worker's steps are the statements of get_definition: lookup_word writes *)
(* self.entry, the rest reads it.                                          *)
(***************************************************************************)
Workers == 2

PoolWords == {The, the, fox}

\* WiktionaryDefiner.define(word) run alone against the "dict" source.
define(word) ==
    LET result == get_definition(CHOOSE e \in fetch(word) : TRUE).value
    IN IF define_retries(word, result, 1)
       THEN get_definition(CHOOSE e \in fetch(lower(word)) : TRUE).value
       ELSE result

PoolInit ==
    /\ NoPipeline
    /\ source = "dict"
    /\ defined \in SUBSET PoolWords
    /\ caller = "pool"
    /\ pc = "resolving"
    /\ words \in {[k \in 1..Len(ws) |-> Word(ws[k])] :
                    ws \in {s \in SeqsUpTo(PoolWords, Workers) :
                              /\ Len(s) = Workers
                              /\ drop_duplicates(s) = s}}
    /\ i = 1
    /\ attempt = 1
    /\ entry = None
    /\ queries = <<>>
    /\ error = "none"
    /\ out = None
    /\ deck = <<>>
    /\ wpc = [k \in 1..Workers |-> "lookup"]
    /\ wattempt = [k \in 1..Workers |-> 1]

\* lookup_word: self.entry = self.parser.fetch(word, language=self.language)
Worker_lookup_word(w) ==
    /\ pc = "resolving"
    /\ wpc[w] = "lookup"
    /\ \E e \in fetch(define_lookup(words[w].word, wattempt[w])) :
           entry' = Some(e)
    /\ queries' = Append(queries,
                         Query(w, define_lookup(words[w].word, wattempt[w]), "sent"))
    /\ wpc' = [wpc EXCEPT ![w] = "read"]
    /\ UNCHANGED <<text, table, top, common, max_words, source, defined, file,
                   file_before, caller, pc, words, i, attempt, error, out, deck,
                   wattempt>>

\* The rest of get_definition, on self.entry as it is now, and the
\* statements of define that follow it.
Worker_get_definition(w) ==
    /\ pc = "resolving"
    /\ wpc[w] = "read"
    /\ LET r == get_definition(entry[1])
       IN IF r.raised
          THEN /\ pc' = "failed"
               /\ error' = "IndexError"
               /\ UNCHANGED <<words, wpc, wattempt>>
          ELSE /\ UNCHANGED <<pc, error>>
               /\ IF define_retries(words[w].word, r.value, wattempt[w])
                  THEN /\ wattempt' = [wattempt EXCEPT ![w] = wattempt[w] + 1]
                       /\ wpc' = [wpc EXCEPT ![w] = "lookup"]
                       /\ UNCHANGED words
                  ELSE /\ words' = [words EXCEPT ![w].definition = r.value]
                       /\ wpc' = [wpc EXCEPT ![w] = "done"]
                       /\ UNCHANGED wattempt
    /\ UNCHANGED <<text, table, top, common, max_words, source, defined, file,
                   file_before, caller, i, attempt, entry, queries, out, deck>>

PoolNext ==
    \E w \in 1..Workers : Worker_lookup_word(w) \/ Worker_get_definition(w)

PoolSpec == PoolInit /\ [][PoolNext]_vars

(***************************************************************************)
(* Properties.                                                             *)
(***************************************************************************)
\* The tokens of the page, the words of the Word objects, and the queries
\* made for Word k.
tokens == clean(text)
word_list == [k \in 1..Len(words) |-> words[k].word]
queries_for(k) == SelectSeq(queries, LAMBDA q : q.index = k)
Running == caller \in {"write", "get_deck"}
Ended == pc \in {"done", "failed"}

\* The position of the first occurrence of x in s (0 when there is none).
first_index(s, x) ==
    IF \E k \in 1..Len(s) : s[k] = x
    THEN CHOOSE k \in 1..Len(s) : s[k] = x /\ \A j \in 1..(k - 1) : s[j] /= x
    ELSE 0

\* The policy of the common-word test, on the table as loaded: the exact
\* string or its lowercased form is among the first `top` rows.
IsCommon(w) ==
    \E r \in 1..Len(table) : r <= top /\ (table[r] = w \/ table[r] = lower(w))

\* The tokens deduplicated (first occurrences) with every common word removed.
RECURSIVE uncommon_distinct_from(_, _)
uncommon_distinct_from(toks, k) ==
    IF k > Len(toks) THEN <<>>
    ELSE IF first_index(toks, toks[k]) = k /\ ~IsCommon(toks[k])
         THEN <<toks[k]>> \o uncommon_distinct_from(toks, k + 1)
         ELSE uncommon_distinct_from(toks, k + 1)
uncommon_distinct == uncommon_distinct_from(tokens, 1)

IsPrefix(s, t) == Len(s) <= Len(t) /\ \A k \in 1..Len(s) : s[k] = t[k]

FoxDeck ==
    <<"F", "o", "x", ";", " ", "\"", "a", " ", "w", "i", "l", "d", " ",
      "c", "a", "n", "i", "n", "e", "\"">>

\* C1: the end-to-end scenario run through get_deck completes and returns
\* the deck of exactly one entry, Fox; "a wild canine".
C1_ScenarioYieldsFoxDeck ==
    (text = ScenarioText /\ caller = "get_deck" /\ Ended)
        => (pc = "done" /\ out = Some(FoxDeck))

\* C2: no response of the definition source to a single lookup (a raise, an
\* empty entry list, an entry without definitions, a text list of fewer than
\* two elements) raises out of define or ends the run.
C2_LookupFailureIsAbsorbed ==
    /\ \A q \in 1..Len(queries) : queries[q].outcome /= "raised"
    /\ error \notin {"IndexError", "FetchError"}

\* C3: a run of write that aborts has not touched the deck file, and a run
\* that ends has either left the file as it was or written the whole deck.
C3_FileWrittenWholeOrUntouched ==
    (caller = "write" /\ Ended)
        => \/ file = file_before
           \/ pc = "done" /\ file = out

\* C4: for every Word whose define call has ended, a second lookup was made
\* exactly when the first one found no definition and the word differs from
\* its lowercased form; it was for the lowercased word; there is no third.
C4_LowercaseFallbackExactlyOnce ==
    Running =>
      \A k \in 1..Len(words) :
        (k < i \/ (k = i /\ pc = "failed")) =>
          LET qs == queries_for(k)
              word == words[k].word
          IN /\ Len(qs) \in {1, 2}
             /\ qs[1].word = word
             /\ (Len(qs) = 2) <=> (qs[1].outcome /= "found" /\ lower(word) /= word)
             /\ Len(qs) = 2 => qs[2].word = lower(word)
             /\ lower(word) = word => Len(qs) = 1

\* C5: the words handed to resolution, and then to the deck, are tokens of
\* the page, each at most once, in the order of their first occurrences;
\* they are resolved in that order.
C5_OrderOfFirstOccurrence ==
    Running =>
      /\ \A k \in 1..Len(words) : first_index(tokens, words[k].word) > 0
      /\ \A k \in 1..(Len(words) - 1) :
            first_index(tokens, words[k].word) < first_index(tokens, words[k + 1].word)
      /\ \A q \in 1..Len(queries) :
            /\ queries[q].index \in 1..Len(words)
            /\ queries[q].word \in {words[queries[q].index].word,
                                    lower(words[queries[q].index].word)}
            /\ q < Len(queries) => queries[q].index <= queries[q + 1].index
      /\ pc = "done" =>
            IsPrefix([k \in 1..Len(deck) |-> deck[k].word], word_list)

\* A page with a repeated token, two Words kept and both resolved.
C5_Witness ==
    /\ Running
    /\ \E j, k \in 1..Len(tokens) : j < k /\ tokens[j] = tokens[k]
    /\ Len(words) = 2
    /\ i > Len(words)
    /\ first_index(tokens, words[2].word) > 2

C7_CommonTest ==
    /\ \A w \in {The, the, Light, light, <<>>} :
          mask(w, common) <=> IsCommon(w)
    /\ Running =>
          LET toks == tokens
          IN \A k \in 1..Len(toks) :
               (first_index(toks, toks[k]) = k /\
                Cardinality({toks[j] : j \in 1..k}) <= max_words)
                 => ((first_index(word_list, toks[k]) > 0) <=> ~IsCommon(toks[k]))

\* "The" is dropped because "the" is a row, "light" is kept although "Light"
\* is a row.
C7_Witness ==
    /\ Running
    /\ table = <<the, Light>>
    /\ top = 2
    /\ tokens = <<The, light>>
    /\ max_words = 2
    /\ word_list = <<light>>

\* C10: at most max_words distinct words are handed to the resolver, each is
\* resolved once and in turn, with at most two queries, so at most
\* 2 * max_words queries are sent.
C10_QueryCap ==
    Running =>
      /\ Len(words) <= max_words
      /\ \A j, k \in 1..Len(words) : j /= k => words[j].word /= words[k].word
      /\ \A k \in 1..Len(words) : Len(queries_for(k)) <= 2
      /\ \A q \in 1..(Len(queries) - 1) : queries[q].index <= queries[q + 1].index
      /\ Len(queries) <= 2 * max_words

\* The page has more distinct tokens than max_words, and 2 * max_words
\* queries were sent.
C10_Witness ==
    /\ Running
    /\ Cardinality({tokens[k] : k \in 1..Len(tokens)}) > max_words
    /\ Len(queries) = 2 * max_words

\* The lines of a string: its pieces between "\n" characters.
RECURSIVE lines_from(_, _, _)
lines_from(string, k, line) ==
    IF k > Len(string) THEN <<line>>
    ELSE IF string[k] = "\n"
         THEN <<line>> \o lines_from(string, k + 1, <<>>)
         ELSE lines_from(string, k + 1, Append(line, string[k]))
lines_of(string) == IF string = <<>> THEN <<>> ELSE lines_from(string, 1, <<>>)

\* The cards of the deck with a definition and a non-empty word.
kept_cards == {k \in 1..Len(deck) : deck[k].definition /= None /\ deck[k].word /= <<>>}
nth_kept(n) == CHOOSE k \in kept_cards : Cardinality({j \in kept_cards : j <= k}) = n

\* C8: the string of a deck has one line per card with a definition and a
\* non-empty word, in deck order, each <word>; "<definition>"; cards without
\* definition or with an empty word have none; formatting again gives the
\* same string.
C8_FormatterDropsAndRenders ==
    (caller = "as_string" /\ pc = "done") =>
      /\ out /= None
      /\ Len(lines_of(out[1])) = Cardinality(kept_cards)
      /\ \A n \in 1..Cardinality(kept_cards) :
            lines_of(out[1])[n] =
                deck[nth_kept(n)].word \o <<";", " ", "\"">>
                    \o deck[nth_kept(n)].definition[1] \o <<"\"">>

\* A deck of one card without a definition and one clean card.
C8_Witness ==
    /\ caller = "as_string"
    /\ pc = "done"
    /\ Len(deck) = 2
    /\ deck[1].definition = None
    /\ deck[2] = [word |-> Fox, definition |-> Some(a_wild_canine)]
    /\ out = Some(FoxDeck)

\* C9: when the workers of the pool are done, every Word has the definition
\* that define gives it when run alone.
C9_PoolMatchesSequential ==
    (caller = "pool" /\ \A w \in DOMAIN wpc : wpc[w] = "done")
        => \A w \in DOMAIN wpc : words[w].definition = define(words[w].word)

====
